---- MODULE Spec2Model ----
(***************************************************************************)
(* Model of redis-driver-rs.                                               *)
(*                                                                         *)
(* src/network/connection.rs: the Connection state machine (initialize,    *)
(* post_connect, reconnect, write, read, send) and the Sentinel master     *)
(* discovery (connect_with_sentinel).  One step of the model is one piece  *)
(* of code between two await points; the outcome of each await (a          *)
(* connect, a query, a read) is chosen by the environment.                 *)
(*                                                                         *)
(* write, read and send never look at config.server, and the discovery     *)
(* never looks at the replies queued on the Connection, so the Connection  *)
(* is explored as two specifications over the same actions:                *)
(*   Spec              a Connection to a single server and every           *)
(*                     operation on it;                                    *)
(*   SentinelSpec      initialize and reconnect of a Connection            *)
(*                     configured with sentinels: discovery and handshake; *)
(*   SentinelFairSpec  SentinelSpec with weak fairness of the discovery.   *)
(*                                                                         *)
(* src/resp/to_args.rs and src/commands/scripting_commands.rs are pure     *)
(* code; each has a specification that applies it to bounded inputs:       *)
(*   ArgsSpec          num_args and write_args of one typed value;         *)
(*   EvalSpec          the Eval builder under sequences of keys / args.    *)
(***************************************************************************)
EXTENDS Integers, Sequences, FiniteSets, TLC

\* ------------------------------------------------------------------ bounds
MaxGen == 3          \* transports opened for the Connection
MaxCmd == 2          \* commands handed to write / send
MaxRounds == 3       \* discovery rounds of one connect_with_sentinel run
MaxAttempts == 2     \* calls of initialize / reconnect
NumSentinels == 2    \* longest sentinel_config.instances list
MaxDb == 1           \* largest config.database
MaxLen == 2          \* longest collection / CommandArgs given to write_args
MaxInt == 12         \* largest integer given to write_args
MaxCalls == 2        \* keys / args calls on one Eval builder

Gens == 1..MaxGen

VARIABLES
    config,               \* Connection.config : Config (server, password, database)
    initial_config,       \* the Config that initialize was given
    streams,              \* Connection.streams : read half and write half, by transport generation
    pc,                   \* position of the single caller inside the running operation
    op,                   \* operation in progress, or the last one run
    attempts,             \* initialize / reconnect calls so far
    gen,                  \* transports opened so far
    wire,                 \* per transport: replies the peer has queued, in write order
    closed,               \* per transport: the peer has closed the stream
    outstanding,          \* per transport: commands written whose reply was not read
    nextCmd,              \* id of the next command handed to write / send
    cur,                  \* id of the command the running send wrote
    ret,                  \* what the last finished operation returned
    \* locals of connect_with_sentinel
    restart,
    unreachable_sentinel,
    idx,                  \* position of the for loop in sentinel_config.instances
    master_connection,    \* transport generation of master_connection.streams (0: none)
    \* history of the running discovery
    rounds,               \* rounds started
    waits,                \* sleep(wait_beetween_failures) calls completed
    mismatches,           \* role checks that reported a role other than Master
    answered,             \* some sentinel answered the master-address query
    unknownSeen,          \* some sentinel answered "service unknown" (Ok(None))
    roundLog,             \* outcome of each endpoint contacted in the running round
    failedStep,           \* step whose failure ended the last initialize / reconnect
    \* history of the handshake and of the transports
    hsLog,                \* handshake requests of the running attempt, in order
    oldGens,              \* transports that were current when reconnect() was called
    discarded,            \* transports that a reconnect replaced by a fresh one
    clean,                \* only sends that ran to a decoded reply were applied to the transport
    shaken,               \* transports on which post_connect returned Ok
    roleSent,             \* transports on which discovery sent the role query and got a role
    \* ToArgs applied to one value
    value,                \* the typed value
    command_args,         \* the CommandArgs the value is written to
    before,               \* command_args before the value was written
    counted,              \* what value.num_args() returned
    apc,                  \* position: num_args, write_args, written
    \* the Eval builder
    builder,              \* Eval { cmd, keys_added }
    calls,                \* the constructor call and the keys / args calls made, in order
    prev,                 \* builder.cmd.args before the last call
    epc                   \* position: building, executed

vars == << config, initial_config, streams, pc, op, attempts, gen, wire, closed,
           outstanding, nextCmd, cur, ret, restart, unreachable_sentinel, idx,
           master_connection, rounds, waits, mismatches, answered, unknownSeen, roundLog,
           failedStep, hsLog, oldGens, discarded, clean, shaken, roleSent,
           value, command_args, before, counted, apc, builder, calls, prev, epc >>

\* ------------------------------------------------------------ resp::to_args
\* A RawArgument is a sequence of bytes; CommandArgs is the list of them.
\* A typed value is [tag, of, n, b, items]: tag is the outer type, of the
\* type parameter of an Option, n the number of a scalar, b the bytes of a
\* string or buffer, items the elements in iteration order.
Val(t, o, num, bytes, its) ==
    [tag |-> t, of |-> o, n |-> num, b |-> bytes, items |-> its]

Integer(i) == Val("int", "", i, << >>, << >>)          \* i8 .. usize, isize
Float(t) == Val("float", "", t, << >>, << >>)      \* f32, f64: t tenths
Bool(x) == Val("bool", "", IF x THEN 1 ELSE 0, << >>, << >>)
Bytes(s) == Val("bytes", "", 0, s, << >>)          \* BulkString, Vec<u8>, &[u8], [u8; N]
Str(s) == Val("str", "", 0, s, << >>)              \* &str, String
Char(c) == Val("char", "", c, << >>, << >>)        \* c: the code point
None(t) == Val("option", t, 0, << >>, << >>)       \* None of Option<T>, T of tag t
Some(v) == Val("option", v.tag, 0, << >>, << v >>)
Coll(its) == Val("seq", "", 0, << >>, its)         \* [T; N], Vec, slice, SmallVec, HashSet, BTreeSet
Map(its) == Val("map", "", 0, << >>, its)          \* HashMap, BTreeMap: items are (key, value)
Tuple(its) == Val("tuple", "", 0, << >>, its)      \* (T, U), (T, U, V)
CmdArgs(raws) == Val("cmdargs", "", 0, << >>, [i \in 1..Len(raws) |-> Bytes(raws[i])])

ScalarTags == {"int", "float", "bool", "bytes", "str", "char"}

\* impl SingleArg for ...: the scalars, and Option<T> for T: SingleArg
SingleArg(v) ==
    \/ v.tag \in ScalarTags
    \/ v.tag = "option" /\ v.of \in ScalarTags

\* decimal digits of a natural number, in ASCII
RECURSIVE Digits(_)
Digits(i) ==
    IF i < 10 THEN << 48 + i >> ELSE Append(Digits(i \div 10), 48 + (i % 10))

\* itoa::Buffer::format
itoa(i) == IF i < 0 THEN << 45 >> \o Digits(0 - i) ELSE Digits(i)

\* dtoa::Buffer::format of t / 10: integer part, ".", one decimal
dtoa(t) ==
    LET a == IF t < 0 THEN 0 - t ELSE t
    IN  (IF t < 0 THEN << 45 >> ELSE << >>)
            \o Digits(a \div 10) \o << 46 >> \o Digits(a % 10)

\* char::encode_utf8 into a buffer of four zero bytes; the whole buffer is
\* what buf.as_slice() gives
encode_utf8(c) ==
    IF c < 128 THEN << c, 0, 0, 0 >>
    ELSE IF c < 2048 THEN << 192 + (c \div 64), 128 + (c % 64), 0, 0 >>
    ELSE IF c < 65536
         THEN << 224 + (c \div 4096), 128 + ((c \div 64) % 64), 128 + (c % 64), 0 >>
         ELSE << 240 + (c \div 262144), 128 + ((c \div 4096) % 64),
                 128 + ((c \div 64) % 64), 128 + (c % 64) >>

\* mutation: the bytes are taken up to the first zero byte
RECURSIVE as_bytesToNul(_)
as_bytesToNul(v) ==
    IF v.b = << >> \/ Head(v.b) = 0 THEN << >>
    ELSE << Head(v.b) >> \o as_bytesToNul([v EXCEPT !.b = Tail(v.b)])

\* self.as_bytes() / self.as_slice() of a string or byte buffer
as_bytes(v) == v.b

\* CommandArgs::write_arg: one RawArgument is appended
write_arg(out, raw) == Append(out, raw)

\* ToArgs::write_args(&self, args): the CommandArgs after self was written
RECURSIVE write_args(_, _), write_each(_, _)
write_args(v, out) ==
    CASE v.tag = "int"     -> write_arg(out, itoa(v.n))
      [] v.tag = "float"   -> write_arg(out, dtoa(v.n))
      [] v.tag = "bool"    -> write_arg(out, IF v.n = 1 THEN << 49 >> ELSE << 48 >>)
      [] v.tag = "bytes"   -> write_arg(out, as_bytes(v))
      [] v.tag = "str"     -> write_arg(out, as_bytes(v))
      [] v.tag = "char"    -> write_arg(out, encode_utf8(v.n))
      [] v.tag = "option"  -> IF v.items = << >> THEN out
                              ELSE write_args(v.items[1], out)
      [] v.tag = "cmdargs" -> write_each(v.items, out)
      [] OTHER             -> write_each(v.items, out)

\* mutation: the elements are written last to first
write_eachReversed(its, out) ==
    IF its = << >> THEN out
    ELSE write_args(Head(its), write_each(Tail(its), out))

\* `for e in self { e.write_args(args) }`; for a map e is (key, value), for
\* CommandArgs e is a stored RawArgument and the call is args.write_arg(e)
write_each(its, out) ==
    IF its = << >> THEN out
    ELSE write_each(Tail(its), write_args(Head(its), out))

\* ToArgs::num_args(&self)
RECURSIVE num_args(_), fold_num_args(_)
num_args(v) ==
    CASE v.tag \in ScalarTags -> 1
      [] v.tag = "option"     -> IF v.items = << >> THEN 0
                                 ELSE num_args(v.items[1])
      [] v.tag = "cmdargs"    -> 1
      [] OTHER                -> fold_num_args(v.items)

\* self.iter().fold(0, |acc, t| acc + t.num_args())
fold_num_args(its) ==
    IF its = << >> THEN 0
    ELSE num_args(Head(its)) + fold_num_args(Tail(its))

\* all sequences over S of length at most n
SeqsUpTo(S, n) == UNION { [1..k -> S] : k \in 0..n }

\* byte strings used as samples: "", "k", and the two bytes 00 FF
RawSample == { << >>, << 107 >>, << 0, 255 >> }

Scalars ==
    { Integer(i) : i \in {0 - MaxInt, 0, MaxInt} }
        \cup { Float(t) : t \in {0 - 25, 0, 15} }
        \cup { Bool(x) : x \in BOOLEAN }
        \cup { Bytes(s) : s \in RawSample }
        \cup { Str(s) : s \in RawSample }
        \cup { Char(c) : c \in {97, 233, 8364} }

\* element types of the homogeneous collections: i64, String, Option<i64>,
\* (String, i64), Vec<i64>
ElemSets ==
    { { Integer(0), Integer(0 - MaxInt) },
      { Str(<< 107 >>), Str(<< >>) },
      { None("int"), Some(Integer(0)) },
      { Tuple(<< Str(<< 107 >>), Integer(0) >>), Tuple(<< Str(<< >>), Integer(MaxInt) >>) },
      { Coll(<< >>), Coll(<< Integer(0), Integer(0) >>) } }

Options ==
    { None("int"), None("str"), None("seq"),
      Some(Integer(0)), Some(Str(<< 107 >>)), Some(Coll(<< Integer(0), Integer(MaxInt) >>)) }

Colls == UNION { { Coll(s) : s \in SeqsUpTo(E, MaxLen) } : E \in ElemSets }

Maps ==
    { Map(s) : s \in { m \in SeqsUpTo({ Tuple(<< Str(k), Integer(0) >>) : k \in RawSample }, MaxLen) :
                          \A i, j \in 1..Len(m) : i # j => m[i] # m[j] } }

Tuples ==
    { Tuple(<< a, b >>) : a \in { Str(<< 107 >>), None("str") },
                          b \in { Integer(0), Coll(<< Integer(0), Integer(0) >>) } }
        \cup { Tuple(<< Str(<< 107 >>), Integer(0), Bool(TRUE) >>) }

CommandArgsValues == { CmdArgs(s) : s \in SeqsUpTo({ << 107 >>, << >> }, MaxLen) }

\* the values handed to write_args / num_args
ArgValues == Scalars \cup Options \cup Colls \cup Maps \cup Tuples \cup CommandArgsValues

\* the CommandArgs a value is written to: empty, or holding one argument
PriorArgs == { << >>, << << 120 >> >> }

\* the variables of this part while another part of the driver is modelled
ToArgsIdle ==
    /\ value = Bytes(<< >>)
    /\ command_args = << >>
    /\ before = << >>
    /\ counted = 0
    /\ apc = "idle"

\* value.num_args() is evaluated
NumArgs ==
    /\ apc = "num_args"
    /\ counted' = num_args(value)
    /\ apc' = "write_args"
    /\ UNCHANGED << config, initial_config, streams, pc, op, attempts, gen,
                    wire, closed, outstanding, nextCmd, cur, ret, restart,
                    unreachable_sentinel, idx, master_connection, rounds,
                    waits, mismatches, answered, unknownSeen, roundLog,
                    failedStep, hsLog, oldGens, discarded, clean, shaken,
                    roleSent, value, command_args, before, builder, calls,
                    prev, epc >>

\* value.write_args(&mut command_args) is evaluated
WriteArgs ==
    /\ apc = "write_args"
    /\ command_args' = write_args(value, command_args)
    /\ apc' = "written"
    /\ UNCHANGED << config, initial_config, streams, pc, op, attempts, gen,
                    wire, closed, outstanding, nextCmd, cur, ret, restart,
                    unreachable_sentinel, idx, master_connection, rounds,
                    waits, mismatches, answered, unknownSeen, roundLog,
                    failedStep, hsLog, oldGens, discarded, clean, shaken,
                    roleSent, value, before, counted, builder, calls, prev,
                    epc >>

\* ------------------------------------------------- commands::scripting (Eval)
\* Command: a name and its CommandArgs
cmd(name) == [name |-> name, args |-> << >>]

\* Command::arg(self, value): the value writes itself to the args
arg(c, v) == [c EXCEPT !.args = write_args(v, c.args)]

\* ScriptingCommands::eval
eval(script) == [cmd |-> arg(cmd("EVAL"), script), keys_added |-> FALSE]

\* ScriptingCommands::evalsha
evalsha(sha1) == [cmd |-> arg(cmd("EVALSHA"), sha1), keys_added |-> FALSE]

\* mutation: keys leaves keys_added as it was
keysForgets(self, ks) ==
    [cmd |-> arg(arg(self.cmd, Integer(num_args(ks))), ks),
     keys_added |-> self.keys_added]

\* Eval::keys
keys(self, ks) ==
    [cmd |-> arg(arg(self.cmd, Integer(num_args(ks))), ks),
     keys_added |-> TRUE]

\* mutation: args never writes the zero key count
argsNoCount(self, as) ==
    [cmd |-> arg(self.cmd, as), keys_added |-> TRUE]

\* Eval::args
args(self, as) ==
    [cmd |-> IF ~self.keys_added
             THEN arg(arg(self.cmd, Integer(0)), as)
             ELSE arg(self.cmd, as),
     keys_added |-> TRUE]

\* script sources / digests given to eval and evalsha
Scripts == { Str(<< 114 >>) }

\* values given to keys and args: one string, a collection of strings, or a
\* CommandArgs (impl SingleArgCollection<Vec<u8>> for CommandArgs)
KeyValues ==
    { Str(<< 107 >>), Bytes(<< 0, 255 >>) }
        \cup { Coll(s) : s \in SeqsUpTo({ Str(<< 107 >>), Str(<< 0, 255 >>) }, MaxLen) }
        \cup { CmdArgs(s) : s \in SeqsUpTo({ << 107 >> }, MaxLen) }

\* a call on the builder, with the keys_added it found
Call(f, v, added) == [fn |-> f, v |-> v, keys_added |-> added]

\* the variables of this part while another part of the driver is modelled
EvalIdle ==
    /\ builder = [cmd |-> cmd(""), keys_added |-> FALSE]
    /\ calls = << >>
    /\ prev = << >>
    /\ epc = "idle"

\* eval(..).keys(ks)
CallKeys ==
    /\ epc = "building"
    /\ Len(calls) <= MaxCalls
    /\ \E ks \in KeyValues :
          /\ builder' = keys(builder, ks)
          /\ calls' = Append(calls, Call("keys", ks, builder.keys_added))
    /\ prev' = builder.cmd.args
    /\ UNCHANGED << config, initial_config, streams, pc, op, attempts, gen,
                    wire, closed, outstanding, nextCmd, cur, ret, restart,
                    unreachable_sentinel, idx, master_connection, rounds,
                    waits, mismatches, answered, unknownSeen, roundLog,
                    failedStep, hsLog, oldGens, discarded, clean, shaken,
                    roleSent, value, command_args, before, counted, apc,
                    epc >>

\* eval(..).args(as)
CallArgs ==
    /\ epc = "building"
    /\ Len(calls) <= MaxCalls
    /\ \E as \in KeyValues :
          /\ builder' = args(builder, as)
          /\ calls' = Append(calls, Call("args", as, builder.keys_added))
    /\ prev' = builder.cmd.args
    /\ UNCHANGED << config, initial_config, streams, pc, op, attempts, gen,
                    wire, closed, outstanding, nextCmd, cur, ret, restart,
                    unreachable_sentinel, idx, master_connection, rounds,
                    waits, mismatches, answered, unknownSeen, roundLog,
                    failedStep, hsLog, oldGens, discarded, clean, shaken,
                    roleSent, value, command_args, before, counted, apc,
                    epc >>

\* Eval::execute: self.cmd is handed to send_into
Execute ==
    /\ epc = "building"
    /\ epc' = "executed"
    /\ UNCHANGED << config, initial_config, streams, pc, op, attempts, gen,
                    wire, closed, outstanding, nextCmd, cur, ret, restart,
                    unreachable_sentinel, idx, master_connection, rounds,
                    waits, mismatches, answered, unknownSeen, roundLog,
                    failedStep, hsLog, oldGens, discarded, clean, shaken,
                    roleSent, value, command_args, before, counted, apc,
                    builder, calls, prev >>

\* ------------------------------------------------------------------ data
\* Config: server is Single{host,port} or Sentinel(instances, ...); the
\* instances list is represented by its length.
Configs ==
    [ server : {"Single", "Sentinel"}, instances : 0..NumSentinels,
      password : BOOLEAN, database : 0..MaxDb ]

NoStreams == [rd |-> 0, wr |-> 0]

\* Result<T>: kind is ok / err, val the value of Ok, err the error of Err
ResultOk(v) == [kind |-> "ok", err |-> "none", val |-> v]
ResultErr(e) == [kind |-> "err", err |-> e, val |-> "none"]

\* What operation o returned (res), together with what its read step took
\* from the transport: read is the tag of the Option<Result<Value>>, decoded
\* the value, cmd the command the peer answered, rgen the transport it came from.
Returned(o, res, rr) ==
    [op |-> o, kind |-> res.kind, err |-> res.err, val |-> res.val,
     read |-> rr.tag, decoded |-> rr.val, cmd |-> rr.cmd, rgen |-> rr.rgen]

NoRead == [tag |-> "none", err |-> "none", cmd |-> 0, rgen |-> 0, val |-> "none"]
NoRet == Returned("none", [kind |-> "none", err |-> "none", val |-> "none"], NoRead)

Ok(o) == Returned(o, ResultOk("unit"), NoRead)
Err(o, e) == Returned(o, ResultErr(e), NoRead)

\* errors of tcp_connect (Error::IO) and of a command (Error::IO, Error::Redis,
\* Error::Client("Disconnected by peer"))
IoErrors == {"Io"}
CommandErrors == {"Io", "Redis", "Disconnected by peer"}

SentinelUnreachable == "All Sentinel instances are unreachable"
SentinelUnknownMaster == "master is unknown by all Sentinel instances"

\* mutation: a reconnect patches the write half only
StreamsPatched(g) == [rd |-> IF streams.rd = 0 THEN g ELSE streams.rd, wr |-> g]

\* Streams::Tcp(framed_read, framed_write): both halves of one fresh stream
Streams(g) == [rd |-> g, wr |-> g]

\* mutation: the two causes of the final error are exchanged
SentinelErrorSwapped(unreachable) ==
    IF unreachable THEN SentinelUnknownMaster ELSE SentinelUnreachable

\* the Err built after the loop of connect_with_sentinel
SentinelError(unreachable) ==
    IF unreachable THEN SentinelUnreachable ELSE SentinelUnknownMaster

\* the state before Connection::initialize(config), for a config of cfgs
Start(cfgs) ==
    /\ config \in cfgs
    /\ initial_config = config
    /\ streams = NoStreams
    /\ pc = "start"
    /\ op = "none"
    /\ attempts = 0
    /\ gen = 0
    /\ wire = [g \in Gens |-> << >>]
    /\ closed = [g \in Gens |-> FALSE]
    /\ outstanding = [g \in Gens |-> 0]
    /\ nextCmd = 1
    /\ cur = 0
    /\ ret = NoRet
    /\ restart = FALSE
    /\ unreachable_sentinel = TRUE
    /\ idx = 1
    /\ master_connection = 0
    /\ rounds = 0
    /\ waits = 0
    /\ mismatches = 0
    /\ answered = FALSE
    /\ unknownSeen = FALSE
    /\ roundLog = << >>
    /\ failedStep = "none"
    /\ hsLog = << >>
    /\ oldGens = {}
    /\ discarded = {}
    /\ clean = TRUE
    /\ shaken = {}
    /\ roleSent = {}

\* ServerConfig::Single { host, port }
Init ==
    /\ Start({ c \in Configs : c.server = "Single" /\ c.instances = 0 })
    /\ ToArgsIdle /\ EvalIdle

\* ServerConfig::Sentinel(sentinel_config)
SentinelInit ==
    /\ Start({ c \in Configs : c.server = "Sentinel" })
    /\ ToArgsIdle /\ EvalIdle

\* ------------------------------------------------------------------ connect
\* Connection::connect dispatches on config.server; entering
\* connect_with_sentinel initialises restart and unreachable_sentinel.
EnterConnect ==
    /\ pc' = IF config.server = "Single" THEN "connect_single" ELSE "sentinel_for"
    /\ restart' = FALSE
    /\ unreachable_sentinel' = TRUE
    /\ idx' = 1
    /\ master_connection' = 0
    /\ rounds' = IF config.server = "Single" THEN 0 ELSE 1
    /\ waits' = 0
    /\ mismatches' = 0
    /\ answered' = FALSE
    /\ unknownSeen' = FALSE
    /\ roundLog' = << >>
    /\ failedStep' = "none"
    /\ hsLog' = << >>
    /\ ret' = NoRet
    /\ attempts' = attempts + 1

\* Connection::initialize(config) is called; there is no Connection yet
Initialize ==
    /\ pc \in {"start", "failed"}
    /\ attempts < MaxAttempts
    /\ op' = "initialize"
    /\ streams' = NoStreams
    /\ EnterConnect
    /\ UNCHANGED << config, initial_config, gen, wire, closed, outstanding,
                    nextCmd, cur, oldGens, discarded, clean, shaken,
                    roleSent, value, command_args, before, counted, apc,
                    builder, calls, prev, epc >>

\* Connection::reconnect is called on a Connection no operation is using
Reconnect ==
    /\ pc = "ready"
    /\ attempts < MaxAttempts
    /\ op' = "reconnect"
    /\ oldGens' = oldGens \cup {streams.rd, streams.wr}
    /\ EnterConnect
    /\ UNCHANGED << config, initial_config, streams, gen, wire, closed,
                    outstanding, nextCmd, cur, discarded, clean, shaken,
                    roleSent, value, command_args, before, counted, apc,
                    builder, calls, prev, epc >>

\* mutation: a reconnect keeps the streams it has and only replays the handshake
ConnectOkKeep(g) ==
    /\ streams' = IF streams = NoStreams THEN Streams(g) ELSE streams
    /\ discarded' = discarded \cup ({streams.rd, streams.wr} \ {0})
    /\ clean' = TRUE
    /\ pc' = "post_connect_auth"

\* Self::connect(..) returned Ok(streams): initialize builds the Connection
\* around them, reconnect assigns them to self.streams; post_connect follows.
ConnectOk(g) ==
    /\ streams' = Streams(g)
    /\ discarded' = discarded \cup ({streams.rd, streams.wr} \ {0})
    /\ clean' = TRUE
    /\ pc' = "post_connect_auth"

\* Self::connect(..) returned Err(e), propagated by `?`: initialize returns
\* no Connection, reconnect returns with self.streams as it was.
ConnectErr(step, e) ==
    /\ pc' = IF op = "initialize" THEN "failed" ELSE "ready"
    /\ ret' = Err(op, e)
    /\ failedStep' = step

\* connect_single_server: tcp_connect (or tcp_tls_connect) is Ok
ConnectSingleOk ==
    /\ pc = "connect_single"
    /\ gen < MaxGen
    /\ gen' = gen + 1
    /\ ConnectOk(gen + 1)
    /\ UNCHANGED << config, initial_config, op, attempts, wire, closed,
                    outstanding, nextCmd, cur, ret, restart,
                    unreachable_sentinel, idx, master_connection, rounds,
                    waits, mismatches, answered, unknownSeen, roundLog,
                    failedStep, hsLog, oldGens, shaken, roleSent, value,
                    command_args, before, counted, apc, builder, calls, prev,
                    epc >>

\* connect_single_server: tcp_connect (or tcp_tls_connect) is Err(e)
ConnectSingleErr ==
    /\ pc = "connect_single"
    /\ \E e \in IoErrors : ConnectErr("connect", e)
    /\ UNCHANGED << config, initial_config, streams, op, attempts, gen, wire,
                    closed, outstanding, nextCmd, cur, restart,
                    unreachable_sentinel, idx, master_connection, rounds,
                    waits, mismatches, answered, unknownSeen, roundLog,
                    hsLog, oldGens, discarded, clean, shaken, roleSent,
                    value, command_args, before, counted, apc, builder,
                    calls, prev, epc >>

\* ------------------------------------------------------ connect_with_sentinel
\* the body of `for sentinel_instance in &sentinel_config.instances` is entered
InFor == pc = "sentinel_for" /\ idx <= config.instances

\* the endpoint at idx was contacted with outcome o, and `continue`
Contacted(o) ==
    /\ roundLog' = Append(roundLog, o)
    /\ idx' = idx + 1

\* Step 1 fails: Connection::initialize(config_for_sentinel) is Err(e)
SentinelConnectFail ==
    /\ InFor
    /\ Contacted("connect_fail")
    /\ UNCHANGED << config, initial_config, streams, pc, op, attempts, gen,
                    wire, closed, outstanding, nextCmd, cur, ret, restart,
                    unreachable_sentinel, master_connection, rounds, waits,
                    mismatches, answered, unknownSeen, failedStep, hsLog,
                    oldGens, discarded, clean, shaken, roleSent, value,
                    command_args, before, counted, apc, builder, calls, prev,
                    epc >>

\* Step 2 fails: sentinel_get_master_addr_by_name is Err(e)
SentinelQueryErr ==
    /\ InFor
    /\ Contacted("query_err")
    /\ UNCHANGED << config, initial_config, streams, pc, op, attempts, gen,
                    wire, closed, outstanding, nextCmd, cur, ret, restart,
                    unreachable_sentinel, master_connection, rounds, waits,
                    mismatches, answered, unknownSeen, failedStep, hsLog,
                    oldGens, discarded, clean, shaken, roleSent, value,
                    command_args, before, counted, apc, builder, calls, prev,
                    epc >>

\* Step 2 answers Ok(None): the sentinel does not know the master
SentinelUnknown ==
    /\ InFor
    /\ unreachable_sentinel' = FALSE
    /\ answered' = TRUE
    /\ unknownSeen' = TRUE
    /\ Contacted("unknown")
    /\ UNCHANGED << config, initial_config, streams, pc, op, attempts, gen,
                    wire, closed, outstanding, nextCmd, cur, ret, restart,
                    master_connection, rounds, waits, mismatches, failedStep,
                    hsLog, oldGens, discarded, clean, shaken, roleSent,
                    value, command_args, before, counted, apc, builder,
                    calls, prev, epc >>

\* Step 2 answers Ok(Some((master_host, master_port))): Step 3 begins
SentinelCandidate ==
    /\ InFor
    /\ answered' = TRUE
    /\ roundLog' = Append(roundLog, "candidate")
    /\ pc' = "master_initialize"
    /\ UNCHANGED << config, initial_config, streams, op, attempts, gen, wire,
                    closed, outstanding, nextCmd, cur, ret, restart,
                    unreachable_sentinel, idx, master_connection, rounds,
                    waits, mismatches, unknownSeen, failedStep, hsLog,
                    oldGens, discarded, clean, shaken, roleSent, value,
                    command_args, before, counted, apc, builder, calls, prev,
                    epc >>

\* Self::initialize(master_config).await? is Ok; master_config is
\* Config { server, ..Default::default() }, so its post_connect sends nothing
MasterInitOk ==
    /\ pc = "master_initialize"
    /\ gen < MaxGen
    /\ gen' = gen + 1
    /\ master_connection' = gen + 1
    /\ pc' = "master_role"
    /\ UNCHANGED << config, initial_config, streams, op, attempts, wire,
                    closed, outstanding, nextCmd, cur, ret, restart,
                    unreachable_sentinel, idx, rounds, waits, mismatches,
                    answered, unknownSeen, roundLog, failedStep, hsLog,
                    oldGens, discarded, clean, shaken, roleSent, value,
                    command_args, before, counted, apc, builder, calls, prev,
                    epc >>

\* Self::initialize(master_config).await? is Err(e): `?` returns it
MasterInitErr ==
    /\ pc = "master_initialize"
    /\ \E e \in IoErrors : ConnectErr("master_connect", e)
    /\ UNCHANGED << config, initial_config, streams, op, attempts, gen, wire,
                    closed, outstanding, nextCmd, cur, restart,
                    unreachable_sentinel, idx, master_connection, rounds,
                    waits, mismatches, answered, unknownSeen, roundLog,
                    hsLog, oldGens, discarded, clean, shaken, roleSent,
                    value, command_args, before, counted, apc, builder,
                    calls, prev, epc >>

\* master_connection.role().await? is Err(e): `?` returns it
RoleErr ==
    /\ pc = "master_role"
    /\ \E e \in CommandErrors : ConnectErr("role", e)
    /\ master_connection' = 0
    /\ UNCHANGED << config, initial_config, streams, op, attempts, gen, wire,
                    closed, outstanding, nextCmd, cur, restart,
                    unreachable_sentinel, idx, rounds, waits, mismatches,
                    answered, unknownSeen, roundLog, hsLog, oldGens,
                    discarded, clean, shaken, roleSent, value, command_args,
                    before, counted, apc, builder, calls, prev, epc >>

\* mutation: the master is connected a second time for the returned streams
RoleMasterReopens ==
    /\ pc = "master_role"
    /\ roleSent' = roleSent \cup {master_connection}
    /\ gen < MaxGen
    /\ gen' = gen + 1
    /\ ConnectOk(gen + 1)
    /\ UNCHANGED << config, initial_config, op, attempts, wire, closed,
                    outstanding, nextCmd, cur, ret, restart,
                    unreachable_sentinel, idx, master_connection, rounds,
                    waits, mismatches, answered, unknownSeen, roundLog,
                    failedStep, hsLog, oldGens, shaken, value, command_args,
                    before, counted, apc, builder, calls, prev, epc >>

\* role is RoleResult::Master: return Ok(master_connection.streams)
RoleMaster ==
    /\ pc = "master_role"
    /\ roleSent' = roleSent \cup {master_connection}
    /\ ConnectOk(master_connection)
    /\ UNCHANGED << config, initial_config, op, attempts, gen, wire, closed,
                    outstanding, nextCmd, cur, ret, restart,
                    unreachable_sentinel, idx, master_connection, rounds,
                    waits, mismatches, answered, unknownSeen, roundLog,
                    failedStep, hsLog, oldGens, shaken, value, command_args,
                    before, counted, apc, builder, calls, prev, epc >>

\* mutation: the round is restarted without the sleep
RoleReplicaNoWait ==
    /\ pc = "master_role"
    /\ mismatches < MaxRounds - 1
    /\ roleSent' = roleSent \cup {master_connection}
    /\ mismatches' = mismatches + 1
    /\ restart' = TRUE
    /\ master_connection' = 0
    /\ pc' = "round_end"
    /\ UNCHANGED << config, initial_config, streams, op, attempts, gen, wire,
                    closed, outstanding, nextCmd, cur, ret,
                    unreachable_sentinel, idx, rounds, waits, answered,
                    unknownSeen, roundLog, failedStep, hsLog, oldGens,
                    discarded, clean, shaken, value, command_args, before,
                    counted, apc, builder, calls, prev, epc >>

\* role is not Master: sleep(sentinel_config.wait_beetween_failures) begins;
\* the peers report a role other than Master at most MaxRounds - 1 times in
\* one run
RoleReplica ==
    /\ pc = "master_role"
    /\ mismatches < MaxRounds - 1
    /\ roleSent' = roleSent \cup {master_connection}
    /\ mismatches' = mismatches + 1
    /\ pc' = "sentinel_sleep"
    /\ UNCHANGED << config, initial_config, streams, op, attempts, gen, wire,
                    closed, outstanding, nextCmd, cur, ret, restart,
                    unreachable_sentinel, idx, master_connection, rounds,
                    waits, answered, unknownSeen, roundLog, failedStep,
                    hsLog, oldGens, discarded, clean, shaken, value,
                    command_args, before, counted, apc, builder, calls, prev,
                    epc >>

\* mutation: after the sleep the for loop goes on with the next instance
SleepDoneContinue ==
    /\ pc = "sentinel_sleep"
    /\ waits' = waits + 1
    /\ restart' = TRUE
    /\ master_connection' = 0
    /\ idx' = idx + 1
    /\ pc' = "sentinel_for"
    /\ UNCHANGED << config, initial_config, streams, op, attempts, gen, wire,
                    closed, outstanding, nextCmd, cur, ret,
                    unreachable_sentinel, rounds, mismatches, answered,
                    unknownSeen, roundLog, failedStep, hsLog, oldGens,
                    discarded, clean, shaken, roleSent, value, command_args,
                    before, counted, apc, builder, calls, prev, epc >>

\* the sleep is over: restart = true; break (master_connection is dropped)
SleepDone ==
    /\ pc = "sentinel_sleep"
    /\ waits' = waits + 1
    /\ restart' = TRUE
    /\ master_connection' = 0
    /\ pc' = "round_end"
    /\ UNCHANGED << config, initial_config, streams, op, attempts, gen, wire,
                    closed, outstanding, nextCmd, cur, ret,
                    unreachable_sentinel, idx, rounds, mismatches, answered,
                    unknownSeen, roundLog, failedStep, hsLog, oldGens,
                    discarded, clean, shaken, roleSent, value, command_args,
                    before, counted, apc, builder, calls, prev, epc >>

\* mutation: when the list is exhausted the for loop starts over
ForDoneLoops ==
    /\ pc = "sentinel_for"
    /\ idx > config.instances
    /\ idx' = 1
    /\ roundLog' = << >>
    /\ UNCHANGED << config, initial_config, streams, pc, op, attempts, gen,
                    wire, closed, outstanding, nextCmd, cur, ret, restart,
                    unreachable_sentinel, master_connection, rounds, waits,
                    mismatches, answered, unknownSeen, failedStep, hsLog,
                    oldGens, discarded, clean, shaken, roleSent, value,
                    command_args, before, counted, apc, builder, calls, prev,
                    epc >>

\* the for loop has run through every instance
ForDone ==
    /\ pc = "sentinel_for"
    /\ idx > config.instances
    /\ pc' = "round_end"
    /\ UNCHANGED << config, initial_config, streams, op, attempts, gen, wire,
                    closed, outstanding, nextCmd, cur, ret, restart,
                    unreachable_sentinel, idx, master_connection, rounds,
                    waits, mismatches, answered, unknownSeen, roundLog,
                    failedStep, hsLog, oldGens, discarded, clean, shaken,
                    roleSent, value, command_args, before, counted, apc,
                    builder, calls, prev, epc >>

\* mutation: each round classifies the sentinels afresh
RoundRestartResets ==
    /\ pc = "round_end"
    /\ restart
    /\ restart' = FALSE
    /\ unreachable_sentinel' = TRUE
    /\ idx' = 1
    /\ roundLog' = << >>
    /\ rounds' = rounds + 1
    /\ pc' = "sentinel_for"
    /\ UNCHANGED << config, initial_config, streams, op, attempts, gen, wire,
                    closed, outstanding, nextCmd, cur, ret,
                    master_connection, waits, mismatches, answered,
                    unknownSeen, failedStep, hsLog, oldGens, discarded,
                    clean, shaken, roleSent, value, command_args, before,
                    counted, apc, builder, calls, prev, epc >>

\* `if !restart { break } else { restart = false }`, else branch: the loop
\* runs the for again from the first instance
RoundRestart ==
    /\ pc = "round_end"
    /\ restart
    /\ restart' = FALSE
    /\ idx' = 1
    /\ roundLog' = << >>
    /\ rounds' = rounds + 1
    /\ pc' = "sentinel_for"
    /\ UNCHANGED << config, initial_config, streams, op, attempts, gen, wire,
                    closed, outstanding, nextCmd, cur, ret,
                    unreachable_sentinel, master_connection, waits,
                    mismatches, answered, unknownSeen, failedStep, hsLog,
                    oldGens, discarded, clean, shaken, roleSent, value,
                    command_args, before, counted, apc, builder, calls, prev,
                    epc >>

\* mutation: a round that ends without a mismatch is followed by another round
SentinelExhaustedRescans ==
    /\ pc = "round_end"
    /\ ~restart
    /\ rounds < MaxRounds
    /\ idx' = 1
    /\ roundLog' = << >>
    /\ rounds' = rounds + 1
    /\ pc' = "sentinel_for"
    /\ UNCHANGED << config, initial_config, streams, op, attempts, gen, wire,
                    closed, outstanding, nextCmd, cur, ret, restart,
                    unreachable_sentinel, master_connection, waits,
                    mismatches, answered, unknownSeen, failedStep, hsLog,
                    oldGens, discarded, clean, shaken, roleSent, value,
                    command_args, before, counted, apc, builder, calls, prev,
                    epc >>

\* `if !restart { break }`, then the Err(Error::Sentinel(..)) after the loop
SentinelExhausted ==
    /\ pc = "round_end"
    /\ ~restart
    /\ ConnectErr("sentinel", SentinelError(unreachable_sentinel))
    /\ UNCHANGED << config, initial_config, streams, op, attempts, gen, wire,
                    closed, outstanding, nextCmd, cur, restart,
                    unreachable_sentinel, idx, master_connection, rounds,
                    waits, mismatches, answered, unknownSeen, roundLog,
                    hsLog, oldGens, discarded, clean, shaken, roleSent,
                    value, command_args, before, counted, apc, builder,
                    calls, prev, epc >>

\* ------------------------------------------------------------- post_connect
\* `if let Some(ref password) = self.config.password`
NeedsAuth(cfg) == cfg.password

\* mutation: the database is selected whatever its index
NeedsSelectAlways(cfg) == TRUE

\* `if self.config.database != 0`
NeedsSelect(cfg) == cfg.database # 0

\* a handshake request returned Err(e), propagated by `?` through
\* post_connect: initialize drops the Connection it built; reconnect returns
\* the error and self.streams stays the transport just installed.
HandshakeErr(step, e) ==
    /\ pc' = IF op = "initialize" THEN "failed" ELSE "ready"
    /\ streams' = IF op = "initialize" THEN NoStreams ELSE streams
    /\ ret' = Err(op, e)
    /\ failedStep' = step
    /\ closed' = IF e = "Disconnected by peer"
                 THEN [closed EXCEPT ![streams.rd] = TRUE] ELSE closed
    /\ clean' = (clean /\ e = "Redis")

\* a handshake request sent on the transport of the Connection
Handshake(r, o) == [req |-> r, ok |-> o, gen |-> streams.wr]

\* no password is configured: no AUTH
AuthSkip ==
    /\ pc = "post_connect_auth"
    /\ ~NeedsAuth(config)
    /\ pc' = "post_connect_select"
    /\ UNCHANGED << config, initial_config, streams, op, attempts, gen, wire,
                    closed, outstanding, nextCmd, cur, ret, restart,
                    unreachable_sentinel, idx, master_connection, rounds,
                    waits, mismatches, answered, unknownSeen, roundLog,
                    failedStep, hsLog, oldGens, discarded, clean, shaken,
                    roleSent, value, command_args, before, counted, apc,
                    builder, calls, prev, epc >>

\* self.auth(username, password).await? is Ok
AuthOk ==
    /\ pc = "post_connect_auth"
    /\ NeedsAuth(config)
    /\ hsLog' = Append(hsLog, Handshake("auth", TRUE))
    /\ pc' = "post_connect_select"
    /\ UNCHANGED << config, initial_config, streams, op, attempts, gen, wire,
                    closed, outstanding, nextCmd, cur, ret, restart,
                    unreachable_sentinel, idx, master_connection, rounds,
                    waits, mismatches, answered, unknownSeen, roundLog,
                    failedStep, oldGens, discarded, clean, shaken, roleSent,
                    value, command_args, before, counted, apc, builder,
                    calls, prev, epc >>

\* mutation: the failure of AUTH is swallowed and the handshake goes on
AuthFailContinue ==
    /\ pc = "post_connect_auth"
    /\ NeedsAuth(config)
    /\ hsLog' = Append(hsLog, Handshake("auth", FALSE))
    /\ pc' = "post_connect_select"
    /\ UNCHANGED << config, initial_config, streams, op, attempts, gen, wire,
                    closed, outstanding, nextCmd, cur, ret, restart,
                    unreachable_sentinel, idx, master_connection, rounds,
                    waits, mismatches, answered, unknownSeen, roundLog,
                    failedStep, oldGens, discarded, clean, shaken, roleSent,
                    value, command_args, before, counted, apc, builder,
                    calls, prev, epc >>

\* self.auth(username, password).await? is Err(e)
AuthFail ==
    /\ pc = "post_connect_auth"
    /\ NeedsAuth(config)
    /\ hsLog' = Append(hsLog, Handshake("auth", FALSE))
    /\ \E e \in CommandErrors : HandshakeErr("auth", e)
    /\ UNCHANGED << config, initial_config, op, attempts, gen, wire,
                    outstanding, nextCmd, cur, restart, unreachable_sentinel,
                    idx, master_connection, rounds, waits, mismatches,
                    answered, unknownSeen, roundLog, oldGens, discarded,
                    shaken, roleSent, value, command_args, before, counted,
                    apc, builder, calls, prev, epc >>

\* post_connect returned Ok(()): initialize returns Ok(connection),
\* reconnect returns Ok(())
PostConnectOk ==
    /\ pc' = "ready"
    /\ ret' = Ok(op)
    /\ shaken' = shaken \cup {streams.wr}

\* the database is 0: no SELECT
SelectSkip ==
    /\ pc = "post_connect_select"
    /\ ~NeedsSelect(config)
    /\ PostConnectOk
    /\ UNCHANGED << config, initial_config, streams, op, attempts, gen, wire,
                    closed, outstanding, nextCmd, cur, restart,
                    unreachable_sentinel, idx, master_connection, rounds,
                    waits, mismatches, answered, unknownSeen, roundLog,
                    failedStep, hsLog, oldGens, discarded, clean, roleSent,
                    value, command_args, before, counted, apc, builder,
                    calls, prev, epc >>

\* self.select(self.config.database).await? is Ok
SelectOk ==
    /\ pc = "post_connect_select"
    /\ NeedsSelect(config)
    /\ hsLog' = Append(hsLog, Handshake("select", TRUE))
    /\ PostConnectOk
    /\ UNCHANGED << config, initial_config, streams, op, attempts, gen, wire,
                    closed, outstanding, nextCmd, cur, restart,
                    unreachable_sentinel, idx, master_connection, rounds,
                    waits, mismatches, answered, unknownSeen, roundLog,
                    failedStep, oldGens, discarded, clean, roleSent, value,
                    command_args, before, counted, apc, builder, calls, prev,
                    epc >>

\* self.select(self.config.database).await? is Err(e)
SelectFail ==
    /\ pc = "post_connect_select"
    /\ NeedsSelect(config)
    /\ hsLog' = Append(hsLog, Handshake("select", FALSE))
    /\ \E e \in CommandErrors : HandshakeErr("select", e)
    /\ UNCHANGED << config, initial_config, op, attempts, gen, wire,
                    outstanding, nextCmd, cur, restart, unreachable_sentinel,
                    idx, master_connection, rounds, waits, mismatches,
                    answered, unknownSeen, roundLog, oldGens, discarded,
                    shaken, roleSent, value, command_args, before, counted,
                    apc, builder, calls, prev, epc >>

\* ------------------------------------------------------ write / read / send
\* ReplyValue, reduced to what send distinguishes: the Error variant or not
Values == {"Integer", "Error"}

\* Option<Result<Value>> as returned by Connection::read
ReadNone == [tag |-> "None", err |-> "none", cmd |-> 0, rgen |-> 0, val |-> "none"]
ReadErr(e) == [tag |-> "Err", err |-> e, cmd |-> 0, rgen |-> 0, val |-> "none"]
ReadOk(r) == [tag |-> "Ok", err |-> "none", cmd |-> r.cmd, rgen |-> r.gen, val |-> r.val]

\* ResultValueExt::into_result: Ok(Value::Error(e)) becomes Err(Error::Redis(e)),
\* every other Result is returned as it is
into_result(res) ==
    IF res.kind = "ok" /\ res.val = "Error" THEN ResultErr("Redis") ELSE res

\* Connection::read as a Result: Some(x) is x (Connection::read adds nothing)
read(rr) ==
    IF rr.tag = "None" THEN ResultOk("none")
    ELSE IF rr.tag = "Err" THEN ResultErr(rr.err) ELSE ResultOk(rr.val)

\* mutation: end-of-stream is returned as an empty reply
sendEmptyOnNone(rr) ==
    IF rr.tag = "None" THEN ResultOk("none")
    ELSE IF rr.tag = "Err" THEN ResultErr(rr.err)
         ELSE into_result(ResultOk(rr.val))

\* mutation: the decoded value is returned without into_result
sendNoIntoResult(rr) ==
    IF rr.tag = "None" THEN ResultErr("Disconnected by peer")
    ELSE IF rr.tag = "Err" THEN ResultErr(rr.err)
         ELSE ResultOk(rr.val)

\* the tail of Connection::send, given what self.read().await yielded:
\* .ok_or_else(|| Error::Client("Disconnected by peer"))?.into_result()
send(rr) ==
    IF rr.tag = "None" THEN ResultErr("Disconnected by peer")
    ELSE IF rr.tag = "Err" THEN ResultErr(rr.err)
         ELSE into_result(ResultOk(rr.val))

\* framed_write.send(command) is Ok: the frame is on the transport g of the
\* write half; a peer that has not closed queues its reply v on that transport
Written(g, v) ==
    /\ wire' = IF closed[g] THEN wire
               ELSE [wire EXCEPT ![g] = Append(@, [cmd |-> nextCmd, gen |-> g, val |-> v])]
    /\ outstanding' = [outstanding EXCEPT ![g] = @ + 1]
    /\ nextCmd' = nextCmd + 1

\* mutation: the reply that was read stays buffered on the transport
TakenKeeps(g) ==
    /\ wire' = wire
    /\ outstanding' = [outstanding EXCEPT ![g] = IF @ > 0 THEN @ - 1 ELSE 0]

\* framed_read.next() takes the next decoded reply from the transport g of
\* the read half
Taken(g) ==
    /\ wire' = [wire EXCEPT ![g] = Tail(@)]
    /\ outstanding' = [outstanding EXCEPT ![g] = IF @ > 0 THEN @ - 1 ELSE 0]

\* Connection::write(command) returns Ok(())
WriteOk ==
    /\ pc = "ready"
    /\ nextCmd <= MaxCmd
    /\ \E v \in Values : Written(streams.wr, v)
    /\ op' = "write"
    /\ ret' = Ok("write")
    /\ clean' = FALSE
    /\ UNCHANGED << config, initial_config, streams, pc, attempts, gen,
                    closed, cur, restart, unreachable_sentinel, idx,
                    master_connection, rounds, waits, mismatches, answered,
                    unknownSeen, roundLog, failedStep, hsLog, oldGens,
                    discarded, shaken, roleSent, value, command_args, before,
                    counted, apc, builder, calls, prev, epc >>

\* Connection::write(command) returns Err(e)
WriteErr ==
    /\ pc = "ready"
    /\ nextCmd <= MaxCmd
    /\ nextCmd' = nextCmd + 1
    /\ op' = "write"
    /\ \E e \in IoErrors : ret' = Err("write", e)
    /\ clean' = FALSE
    /\ UNCHANGED << config, initial_config, streams, pc, attempts, gen, wire,
                    closed, outstanding, cur, restart, unreachable_sentinel,
                    idx, master_connection, rounds, waits, mismatches,
                    answered, unknownSeen, roundLog, failedStep, hsLog,
                    oldGens, discarded, shaken, roleSent, value,
                    command_args, before, counted, apc, builder, calls, prev,
                    epc >>

\* Connection::read() returns Some(Ok(value))
ReadReply ==
    /\ pc = "ready"
    /\ wire[streams.rd] # << >>
    /\ LET rr == ReadOk(Head(wire[streams.rd]))
       IN  ret' = Returned("read", read(rr), rr)
    /\ Taken(streams.rd)
    /\ op' = "read"
    /\ clean' = FALSE
    /\ UNCHANGED << config, initial_config, streams, pc, attempts, gen,
                    closed, nextCmd, cur, restart, unreachable_sentinel, idx,
                    master_connection, rounds, waits, mismatches, answered,
                    unknownSeen, roundLog, failedStep, hsLog, oldGens,
                    discarded, shaken, roleSent, value, command_args, before,
                    counted, apc, builder, calls, prev, epc >>

\* Connection::read() returns None: the peer closed and nothing is buffered
ReadEof ==
    /\ pc = "ready"
    /\ wire[streams.rd] = << >>
    /\ closed[streams.rd]
    /\ ret' = Returned("read", read(ReadNone), ReadNone)
    /\ op' = "read"
    /\ clean' = FALSE
    /\ UNCHANGED << config, initial_config, streams, pc, attempts, gen, wire,
                    closed, outstanding, nextCmd, cur, restart,
                    unreachable_sentinel, idx, master_connection, rounds,
                    waits, mismatches, answered, unknownSeen, roundLog,
                    failedStep, hsLog, oldGens, discarded, shaken, roleSent,
                    value, command_args, before, counted, apc, builder,
                    calls, prev, epc >>

\* Connection::read() returns Some(Err(e))
ReadFailed ==
    /\ pc = "ready"
    /\ \E e \in IoErrors : ret' = Returned("read", read(ReadErr(e)), ReadErr(e))
    /\ op' = "read"
    /\ clean' = FALSE
    /\ UNCHANGED << config, initial_config, streams, pc, attempts, gen, wire,
                    closed, outstanding, nextCmd, cur, restart,
                    unreachable_sentinel, idx, master_connection, rounds,
                    waits, mismatches, answered, unknownSeen, roundLog,
                    failedStep, hsLog, oldGens, discarded, shaken, roleSent,
                    value, command_args, before, counted, apc, builder,
                    calls, prev, epc >>

\* mutation: send returns once the frame is written and leaves the reply unread
SendWriteNoRead ==
    /\ pc = "ready"
    /\ nextCmd <= MaxCmd
    /\ \E v \in Values : Written(streams.wr, v)
    /\ cur' = nextCmd
    /\ op' = "send"
    /\ ret' = Ok("send")
    /\ UNCHANGED << config, initial_config, streams, pc, attempts, gen,
                    closed, restart, unreachable_sentinel, idx,
                    master_connection, rounds, waits, mismatches, answered,
                    unknownSeen, roundLog, failedStep, hsLog, oldGens,
                    discarded, clean, shaken, roleSent, value, command_args,
                    before, counted, apc, builder, calls, prev, epc >>

\* Connection::send, first half: self.write(command).await? is Ok
SendWrite ==
    /\ pc = "ready"
    /\ nextCmd <= MaxCmd
    /\ \E v \in Values : Written(streams.wr, v)
    /\ cur' = nextCmd
    /\ op' = "send"
    /\ pc' = "send_read"
    /\ UNCHANGED << config, initial_config, streams, attempts, gen, closed,
                    ret, restart, unreachable_sentinel, idx,
                    master_connection, rounds, waits, mismatches, answered,
                    unknownSeen, roundLog, failedStep, hsLog, oldGens,
                    discarded, clean, shaken, roleSent, value, command_args,
                    before, counted, apc, builder, calls, prev, epc >>

\* Connection::send, first half: self.write(command).await? is Err(e)
SendWriteErr ==
    /\ pc = "ready"
    /\ nextCmd <= MaxCmd
    /\ nextCmd' = nextCmd + 1
    /\ op' = "send"
    /\ \E e \in IoErrors : ret' = Err("send", e)
    /\ clean' = FALSE
    /\ UNCHANGED << config, initial_config, streams, pc, attempts, gen, wire,
                    closed, outstanding, cur, restart, unreachable_sentinel,
                    idx, master_connection, rounds, waits, mismatches,
                    answered, unknownSeen, roundLog, failedStep, hsLog,
                    oldGens, discarded, shaken, roleSent, value,
                    command_args, before, counted, apc, builder, calls, prev,
                    epc >>

\* Connection::send, second half: self.read() yields Some(Ok(value))
SendReadReply ==
    /\ pc = "send_read"
    /\ wire[streams.rd] # << >>
    /\ LET rr == ReadOk(Head(wire[streams.rd]))
       IN  ret' = Returned("send", send(rr), rr)
    /\ Taken(streams.rd)
    /\ pc' = "ready"
    /\ UNCHANGED << config, initial_config, streams, op, attempts, gen,
                    closed, nextCmd, cur, restart, unreachable_sentinel, idx,
                    master_connection, rounds, waits, mismatches, answered,
                    unknownSeen, roundLog, failedStep, hsLog, oldGens,
                    discarded, clean, shaken, roleSent, value, command_args,
                    before, counted, apc, builder, calls, prev, epc >>

\* mutation: send reconnects by itself when the peer has closed the stream
SendReadEofReconnects ==
    /\ pc = "send_read"
    /\ wire[streams.rd] = << >>
    /\ closed[streams.rd]
    /\ EnterConnect
    /\ clean' = FALSE
    /\ UNCHANGED << config, initial_config, streams, op, gen, wire, closed,
                    outstanding, nextCmd, cur, oldGens, discarded, shaken,
                    roleSent, value, command_args, before, counted, apc,
                    builder, calls, prev, epc >>

\* Connection::send, second half: self.read() yields None
SendReadEof ==
    /\ pc = "send_read"
    /\ wire[streams.rd] = << >>
    /\ closed[streams.rd]
    /\ ret' = Returned("send", send(ReadNone), ReadNone)
    /\ pc' = "ready"
    /\ clean' = FALSE
    /\ UNCHANGED << config, initial_config, streams, op, attempts, gen, wire,
                    closed, outstanding, nextCmd, cur, restart,
                    unreachable_sentinel, idx, master_connection, rounds,
                    waits, mismatches, answered, unknownSeen, roundLog,
                    failedStep, hsLog, oldGens, discarded, shaken, roleSent,
                    value, command_args, before, counted, apc, builder,
                    calls, prev, epc >>

\* Connection::send, second half: self.read() yields Some(Err(e))
SendReadErr ==
    /\ pc = "send_read"
    /\ \E e \in IoErrors : ret' = Returned("send", send(ReadErr(e)), ReadErr(e))
    /\ pc' = "ready"
    /\ clean' = FALSE
    /\ UNCHANGED << config, initial_config, streams, op, attempts, gen, wire,
                    closed, outstanding, nextCmd, cur, restart,
                    unreachable_sentinel, idx, master_connection, rounds,
                    waits, mismatches, answered, unknownSeen, roundLog,
                    failedStep, hsLog, oldGens, discarded, shaken, roleSent,
                    value, command_args, before, counted, apc, builder,
                    calls, prev, epc >>

\* the future of send is dropped while it awaits the read
SendCancel ==
    /\ pc = "send_read"
    /\ ret' = Returned("send", [kind |-> "cancelled", err |-> "none", val |-> "none"], NoRead)
    /\ pc' = "ready"
    /\ clean' = FALSE
    /\ UNCHANGED << config, initial_config, streams, op, attempts, gen, wire,
                    closed, outstanding, nextCmd, cur, restart,
                    unreachable_sentinel, idx, master_connection, rounds,
                    waits, mismatches, answered, unknownSeen, roundLog,
                    failedStep, hsLog, oldGens, discarded, shaken, roleSent,
                    value, command_args, before, counted, apc, builder,
                    calls, prev, epc >>

\* the peer closes the stream of the Connection, having sent k of its replies
PeerClose ==
    /\ pc \in {"ready", "send_read"}
    /\ ~closed[streams.rd]
    /\ closed' = [closed EXCEPT ![streams.rd] = TRUE]
    /\ \E k \in 0..Len(wire[streams.rd]) :
          wire' = [wire EXCEPT ![streams.rd] = SubSeq(@, 1, k)]
    /\ UNCHANGED << config, initial_config, streams, pc, op, attempts, gen,
                    outstanding, nextCmd, cur, ret, restart,
                    unreachable_sentinel, idx, master_connection, rounds,
                    waits, mismatches, answered, unknownSeen, roundLog,
                    failedStep, hsLog, oldGens, discarded, clean, shaken,
                    roleSent, value, command_args, before, counted, apc,
                    builder, calls, prev, epc >>

\* ------------------------------------------------------------ specification
\* a Connection to a single server
Next ==
    \/ Initialize \/ Reconnect
    \/ ConnectSingleOk \/ ConnectSingleErr
    \/ AuthSkip \/ AuthOk \/ AuthFail
    \/ SelectSkip \/ SelectOk \/ SelectFail
    \/ WriteOk \/ WriteErr \/ ReadReply \/ ReadEof \/ ReadFailed
    \/ SendWrite \/ SendWriteErr \/ SendReadReply \/ SendReadEof \/ SendReadErr
    \/ SendCancel \/ PeerClose

Spec == Init /\ [][Next]_vars

\* a Connection to a single server used through initialize, reconnect and
\* send only
SendNext ==
    \/ Initialize \/ Reconnect
    \/ ConnectSingleOk \/ ConnectSingleErr
    \/ AuthSkip \/ AuthOk \/ AuthFail
    \/ SelectSkip \/ SelectOk \/ SelectFail
    \/ SendWrite \/ SendWriteErr \/ SendReadReply \/ SendReadEof \/ SendReadErr
    \/ SendCancel \/ PeerClose

SendSpec == Init /\ [][SendNext]_vars

\* initialize and reconnect of a Connection configured with sentinels
SentinelNext ==
    \/ Initialize \/ Reconnect
    \/ SentinelConnectFail \/ SentinelQueryErr \/ SentinelUnknown \/ SentinelCandidate
    \/ MasterInitOk \/ MasterInitErr
    \/ RoleErr \/ RoleMaster \/ RoleReplica \/ SleepDone
    \/ ForDone \/ RoundRestart \/ SentinelExhausted
    \/ AuthSkip \/ AuthOk \/ AuthFail
    \/ SelectSkip \/ SelectOk \/ SelectFail

SentinelSpec == SentinelInit /\ [][SentinelNext]_vars

\* the steps connect_with_sentinel takes by itself once it was called: every
\* await in it (connect, query, role, sleep) completes or fails
DiscoveryStep ==
    \/ SentinelConnectFail \/ SentinelQueryErr \/ SentinelUnknown \/ SentinelCandidate
    \/ MasterInitOk \/ MasterInitErr
    \/ RoleErr \/ RoleMaster \/ RoleReplica \/ SleepDone
    \/ ForDone \/ RoundRestart \/ SentinelExhausted

\* SentinelSpec where a discovery that can take a step eventually takes one
SentinelFairSpec == SentinelSpec /\ WF_vars(DiscoveryStep)

TypeOK ==
    /\ config \in Configs
    /\ streams \in [rd : 0..MaxGen, wr : 0..MaxGen]
    /\ gen \in 0..MaxGen
    /\ attempts \in 0..MaxAttempts
    /\ rounds \in 0..MaxRounds
    /\ nextCmd \in 1..(MaxCmd + 1)
    /\ restart \in BOOLEAN
    /\ unreachable_sentinel \in BOOLEAN

\* ----------------------------------------- specifications of the two parts
\* the Connection of these specifications is the one not yet initialized
NoConnection ==
    Start({ c \in Configs : c.server = "Single" /\ c.instances = 0
                            /\ ~c.password /\ c.database = 0 })

ArgsInit ==
    /\ NoConnection
    /\ EvalIdle
    /\ value \in ArgValues
    /\ before \in PriorArgs
    /\ command_args = before
    /\ counted = 0
    /\ apc = "num_args"

ArgsNext == NumArgs \/ WriteArgs

\* num_args and write_args applied to every value of ArgValues
ArgsSpec == ArgsInit /\ [][ArgsNext]_vars

EvalInit ==
    /\ NoConnection
    /\ ToArgsIdle
    /\ \E s \in Scripts :
          \/ builder = eval(s) /\ calls = << Call("eval", s, FALSE) >>
          \/ builder = evalsha(s) /\ calls = << Call("evalsha", s, FALSE) >>
    /\ prev = << >>
    /\ epc = "building"

EvalNext == CallKeys \/ CallArgs \/ Execute

\* the Eval builder under every sequence of at most MaxCalls keys / args calls
EvalSpec == EvalInit /\ [][EvalNext]_vars
\* ==================================================================== claims
SentinelErrors == {SentinelUnreachable, SentinelUnknownMaster}

\* initialize or reconnect returned an error from inside connect_with_sentinel
DiscoveryFailed ==
    /\ ret.op \in {"initialize", "reconnect"}
    /\ ret.kind = "err"
    /\ failedStep \in {"sentinel", "master_connect", "role"}

\* the handshake requests the configuration asks for, in order
Expected(cfg) ==
    (IF cfg.password THEN << "auth" >> ELSE << >>)
        \o (IF cfg.database # 0 THEN << "select" >> ELSE << >>)

Requests(log) == [i \in 1..Len(log) |-> log[i].req]

IsPrefix(s, t) == Len(s) <= Len(t) /\ \A i \in 1..Len(s) : s[i] = t[i]

\* C1 (as claimed): a discovery that ends with "All Sentinel instances are
\* unreachable" is one in which no sentinel answered the master-address query
\* in any round, neither with Ok(None) nor with a candidate address.
C1_UnreachableMeansNoAnswer ==
    (DiscoveryFailed /\ ret.err = SentinelUnreachable) => ~answered

\* C2 (as claimed): a discovery that ends without success ends with one of the
\* two Error::Sentinel causes, whichever step failed.
C2_FailureIsSentinelError ==
    DiscoveryFailed => ret.err \in SentinelErrors

\* C3: when some sentinel answered Ok(None) in some round and the discovery
\* ends with an Error::Sentinel, the error is "master is unknown", never
\* "unreachable", whatever the later rounds saw.
C3_UnknownIsNeverUnreachable ==
    (DiscoveryFailed /\ ret.err \in SentinelErrors /\ unknownSeen)
        => ret.err = SentinelUnknownMaster

\* C3 witness: "service unknown" was answered in an earlier round, the last
\* round saw connect failures only, and the discovery ended "master is unknown"
C3_Witness ==
    /\ DiscoveryFailed
    /\ ret.err = SentinelUnknownMaster
    /\ unknownSeen
    /\ rounds >= 2
    /\ roundLog # << >>
    /\ \A i \in 1..Len(roundLog) : roundLog[i] = "connect_fail"

C5_EofIsDisconnected ==
    (ret.op = "send" /\ ret.read = "None")
        => (ret.kind = "err" /\ ret.err = "Disconnected by peer" /\ ret.val = "none")

\* C5 witness: send wrote its frame, the peer closed, the read yielded None
C5_Witness ==
    /\ ret.op = "send"
    /\ ret.read = "None"
    /\ closed[streams.rd]
    /\ outstanding[streams.wr] >= 1
    /\ ret.err = "Disconnected by peer"

\* C6: a send whose decoded reply is the Error variant returns Err carrying
\* it; no send returns Ok with the Error variant as its value.
C6_ErrorReplyIsFailure ==
    /\ (ret.op = "send" /\ ret.read = "Ok" /\ ret.decoded = "Error")
          => (ret.kind = "err" /\ ret.err = "Redis")
    /\ (ret.op = "send" /\ ret.kind = "ok") => ret.val # "Error"

\* C6 witness: a send decoded an Error reply and failed with it
C6_Witness ==
    /\ ret.op = "send"
    /\ ret.read = "Ok"
    /\ ret.decoded = "Error"
    /\ ret.kind = "err"

\* C7: the handshake requests sent are, in order, a prefix of: AUTH iff a
\* password is configured, then SELECT iff the database is not 0, all on an
\* opened transport; and initialize returns a Connection only when all of
\* them were sent and succeeded.
C7_HandshakeAsConfigured ==
    /\ IsPrefix(Requests(hsLog), Expected(config))
    /\ \A i \in 1..Len(hsLog) : hsLog[i].gen \in 1..gen
    /\ (ret.op = "initialize" /\ ret.kind = "ok")
          => /\ Requests(hsLog) = Expected(config)
             /\ \A i \in 1..Len(hsLog) : hsLog[i].ok /\ hsLog[i].gen = streams.wr
             /\ pc \in {"ready", "send_read"}

\* C7 witness: initialize returned a Connection after AUTH and then SELECT
C7_Witness ==
    /\ ret.op = "initialize"
    /\ ret.kind = "ok"
    /\ config.password
    /\ config.database # 0
    /\ Requests(hsLog) = << "auth", "select" >>

\* C8: nothing is sent after a failed handshake request, no request is sent
\* twice in one attempt, and an initialize whose AUTH or SELECT failed returns
\* that failure and no Connection.
C8_HandshakeFailureAborts ==
    /\ \A i \in 1..Len(hsLog) : ~hsLog[i].ok => i = Len(hsLog)
    /\ \A i, j \in 1..Len(hsLog) : hsLog[i].req = hsLog[j].req => i = j
    /\ (ret.op = "initialize" /\ failedStep \in {"auth", "select"})
          => /\ ret.kind = "err"
             /\ pc = "failed"
             /\ streams = NoStreams
             /\ hsLog # << >>
             /\ ~hsLog[Len(hsLog)].ok
             /\ hsLog[Len(hsLog)].req = failedStep

\* C8 witness: AUTH failed in an initialize whose configuration also asks
\* for SELECT; only AUTH was sent
C8_Witness ==
    /\ ret.op = "initialize"
    /\ failedStep = "auth"
    /\ pc = "failed"
    /\ config.database # 0
    /\ Requests(hsLog) = << "auth" >>

C10_SameGeneration ==
    streams.rd = streams.wr

\* C10 witness: a reconnect has replaced the transport and the Connection is
\* in use on the new one
C10_Witness ==
    /\ discarded # {}
    /\ streams.rd = streams.wr
    /\ streams.rd \notin discarded
    /\ streams.rd # 0
    /\ pc = "send_read"

\* C11: write, read and send never open a transport and never replay the
\* handshake, whether they succeed or fail: the transport of the Connection,
\* the number of transports opened and the handshake log change only in
\* steps of initialize or of an explicit reconnect call, and a connect
\* attempt begins only where the caller calls one of the two.
C11_NoImplicitReconnect ==
    [][ /\ (streams' # streams \/ gen' # gen \/ hsLog' # hsLog)
            => op' \in {"initialize", "reconnect"}
        /\ attempts' # attempts
            => (pc \in {"start", "failed", "ready"}
                /\ op' \in {"initialize", "reconnect"}) ]_vars

\* C11 witness: a send failed because the peer closed the stream, and the
\* Connection still holds that closed transport, the only one ever opened
C11_Witness ==
    /\ ret.op = "send"
    /\ ret.err = "Disconnected by peer"
    /\ pc = "ready"
    /\ closed[streams.rd]
    /\ streams = Streams(gen)
    /\ attempts = 1

\* C12: for every value of a type implementing ToArgs, CommandArgs included,
\* num_args of the value is the number of RawArguments that write_args
\* appends for it.
C12_NumArgsIsAppended ==
    apc = "written" => counted = Len(command_args) - Len(before)

\* C13: a value of a type marked SingleArg, Option<T> for T: SingleArg
\* included, appends exactly one RawArgument, and a collection of n such
\* values appends exactly n.
C13_SingleArgAppendsOne ==
    apc = "written"
        => /\ SingleArg(value) => Len(command_args) = Len(before) + 1
           /\ (value.tag = "seq" /\ \A i \in 1..Len(value.items) : SingleArg(value.items[i]))
                  => Len(command_args) = Len(before) + Len(value.items)

\* the RawArguments a value appends when written on its own
ArgsOf(v) == write_args(v, << >>)

\* the concatenation of the sequences of s, in order
RECURSIVE Concat(_)
Concat(s) == IF s = << >> THEN << >> ELSE Head(s) \o Concat(Tail(s))

\* C21: a collection appends the arguments of its elements in iteration
\* order, a map appends key then value for each entry in order, a tuple
\* appends its fields left to right; in each case the arguments that were
\* in the list before stay unchanged in front.
C21_ElementsInOrder ==
    apc = "written"
        => /\ value.tag \in {"seq", "tuple"}
                => command_args
                      = before \o Concat([i \in 1..Len(value.items) |->
                                              ArgsOf(value.items[i])])
           /\ value.tag = "map"
                => command_args
                      = before \o Concat([i \in 1..Len(value.items) |->
                                              ArgsOf(value.items[i].items[1])
                                                  \o ArgsOf(value.items[i].items[2])])

\* C21 witness: a map of two entries was written to a list that held one
\* argument
C21_Witness ==
    /\ apc = "written"
    /\ value.tag = "map"
    /\ Len(value.items) = 2
    /\ before # << >>
    /\ Len(command_args) = Len(before) + 4

\* C22: a byte buffer, byte array or string appends exactly one RawArgument
\* and its bytes are the bytes of the input.
C22_BytesVerbatim ==
    (apc = "written" /\ value.tag \in {"bytes", "str"})
        => command_args = Append(before, value.b)

\* C22 witness: the two bytes 00 FF were written
C22_Witness ==
    /\ apc = "written"
    /\ value = Bytes(<< 0, 255 >>)
    /\ command_args = Append(before, << 0, 255 >>)

\* the UTF-8 encoding of the code point c
Utf8(c) ==
    IF c < 128 THEN << c >>
    ELSE IF c < 2048 THEN << 192 + (c \div 64), 128 + (c % 64) >>
    ELSE IF c < 65536
         THEN << 224 + (c \div 4096), 128 + ((c \div 64) % 64), 128 + (c % 64) >>
         ELSE << 240 + (c \div 262144), 128 + ((c \div 4096) % 64),
                 128 + ((c \div 64) % 64), 128 + (c % 64) >>

\* C29: a char appends exactly one RawArgument, the UTF-8 encoding of the
\* character, 1 to 4 bytes long, with no padding.
C29_CharIsUtf8 ==
    (apc = "written" /\ value.tag = "char")
        => command_args = Append(before, Utf8(value.n))

\* the RawArguments of a value given to keys or args: the string itself, or
\* the strings it holds, in order
Elements(v) ==
    IF v.tag \in ScalarTags THEN << v.b >>
    ELSE [i \in 1..Len(v.items) |-> v.items[i].b]

\* C14: when args(A) with a non-empty A is the only call on the builder, the
\* argument list is the script, the key count "0" (the byte 48), then the
\* arguments of A.
C14_ArgsOnly ==
    (Len(calls) = 2 /\ calls[2].fn = "args" /\ Elements(calls[2].v) # << >>)
        => builder.cmd.args
              = << calls[1].v.b, << 48 >> >> \o Elements(calls[2].v)

\* C14 witness: eval(script).args([a1, a2]).execute()
C14_Witness ==
    /\ Len(calls) = 2
    /\ calls[1].fn = "eval"
    /\ calls[2].fn = "args"
    /\ calls[2].v.tag = "seq"
    /\ Len(Elements(calls[2].v)) = 2
    /\ epc = "executed"

\* C15: when keys(K) is called once and args(A) after it, the argument list
\* is the script, the number of key arguments of K in decimal, the key
\* arguments of K, then the arguments of A.
C15_KeysThenArgs ==
    (Len(calls) = 3 /\ calls[2].fn = "keys" /\ calls[3].fn = "args")
        => builder.cmd.args
              = << calls[1].v.b, Digits(Len(Elements(calls[2].v))) >>
                    \o Elements(calls[2].v) \o Elements(calls[3].v)

\* C16: an args(A) call made after a keys or args call appends the
\* arguments of A to the argument list and nothing else.
C16_LaterArgsOnlyAppend ==
    (Len(calls) >= 3 /\ calls[Len(calls)].fn = "args")
        => builder.cmd.args = prev \o Elements(calls[Len(calls)].v)

\* C16 witness: eval(script).keys([k1, k2]).args([a1, a2]).execute()
C16_Witness ==
    /\ Len(calls) = 3
    /\ calls[2].fn = "keys"
    /\ calls[3].fn = "args"
    /\ Len(Elements(calls[2].v)) = 2
    /\ Len(Elements(calls[3].v)) = 2
    /\ Len(builder.cmd.args) = Len(prev) + 2
    /\ epc = "executed"

\* the RawArguments given in the calls of log named f, in call order
RECURSIVE GivenTo(_, _)
GivenTo(f, log) ==
    IF log = << >> THEN << >>
    ELSE (IF Head(log).fn = f THEN Elements(Head(log).v) ELSE << >>)
            \o GivenTo(f, Tail(log))

\* C27: whatever keys and args calls were made, the executed command holds
\* the script, then one key count, then the key arguments, as many as the
\* count says, then the other arguments, and no second key count.
C27_OneKeyCount ==
    epc = "executed"
        => LET ks == GivenTo("keys", calls)
               as == GivenTo("args", calls)
           IN  builder.cmd.args
                  = << calls[1].v.b, Digits(Len(ks)) >> \o ks \o as

\* C17: after a role check that reported a role other than Master, no
\* endpoint is contacted before the wait is over (every mismatch has been
\* waited for), none is contacted in the round the mismatch ended (restart is
\* set until the next round begins), and endpoints are contacted in list
\* order from the first one of the round.
C17_MismatchEndsRound ==
    [][ Len(roundLog') > Len(roundLog)
            => /\ waits = mismatches
               /\ ~restart
               /\ idx = Len(roundLog) + 1 ]_vars

\* C17 witness: a mismatch on the candidate of the first of two endpoints
\* has been waited for and has ended the round with the second endpoint
\* not contacted
C17_Witness ==
    /\ pc = "round_end"
    /\ restart
    /\ mismatches = 1
    /\ waits = 1
    /\ Len(roundLog) = 1
    /\ config.instances = 2

\* discovery has returned Ok(streams) and the handshake has not started
DiscoveryReturned ==
    /\ config.server = "Sentinel"
    /\ pc = "post_connect_auth"
    /\ hsLog = << >>

\* C18: a discovery that succeeds has run exactly one round more than the
\* role mismatches it met and has waited exactly once per mismatch.
C18_RoundsAndWaits ==
    DiscoveryReturned => (rounds = mismatches + 1 /\ waits = mismatches)

\* C18 witness: one mismatch, then a Master in the round after it
C18_Witness ==
    /\ DiscoveryReturned
    /\ mismatches = 1
    /\ rounds = 2
    /\ waits = 1

\* every endpoint of the list was contacted in the first round and the
\* connection to each of them failed (vacuous for the empty list)
AllConnectsFailed ==
    /\ config.server = "Sentinel"
    /\ rounds = 1
    /\ Len(roundLog) = config.instances
    /\ \A i \in 1..Len(roundLog) : roundLog[i] = "connect_fail"

\* C19: when connecting fails for every sentinel endpoint (or the list is
\* empty), discovery ends after this one round: no restart, no wait, no
\* candidate master connected, and it does return, with the error "all
\* sentinel endpoints unreachable".
C19_AllUnreachable ==
    /\ [](AllConnectsFailed /\ idx > config.instances
            => /\ pc \in {"sentinel_for", "round_end", "failed", "ready"}
               /\ ~restart
               /\ waits = 0 /\ mismatches = 0
               /\ master_connection = 0
               /\ pc \in {"failed", "ready"}
                     => (ret.kind = "err" /\ ret.err = SentinelUnreachable
                         /\ failedStep = "sentinel"))
    /\ (AllConnectsFailed /\ idx > config.instances)
            ~> (pc \in {"failed", "ready"} /\ ret.err = SentinelUnreachable)

\* C19 witness: initialize with two endpoints, both connections failed, has
\* returned the error
C19_Witness ==
    /\ AllConnectsFailed
    /\ config.instances = 2
    /\ pc = "failed"
    /\ ret.err = SentinelUnreachable

\* C20: when discovery returns Ok, the last endpoint contacted gave the
\* candidate, every endpoint before it in the round failed to connect,
\* failed the query or answered unknown, the streams returned are those of
\* the connection the role was checked on, no transport was opened after
\* it, and no error was recorded.
C20_FirstMasterWins ==
    DiscoveryReturned
        => /\ roundLog # << >>
           /\ roundLog[Len(roundLog)] = "candidate"
           /\ \A i \in 1..(Len(roundLog) - 1) :
                  roundLog[i] \in {"connect_fail", "query_err", "unknown"}
           /\ master_connection # 0
           /\ streams = Streams(master_connection)
           /\ gen = master_connection
           /\ ret.kind # "err" /\ failedStep = "none"

\* C20 witness: the first endpoint answered unknown, the second gave a
\* candidate whose role is Master
C20_Witness ==
    /\ DiscoveryReturned
    /\ roundLog = << "unknown", "candidate" >>
    /\ rounds = 1

\* C25: every command written by send goes to a transport on which
\* post_connect returned Ok, whatever initialize and reconnect calls came
\* before, failed ones included.
C25_SendOnlyAfterHandshake ==
    pc = "send_read" => streams.wr \in shaken

Discovering ==
    pc \in {"sentinel_for", "master_initialize", "master_role",
            "sentinel_sleep", "round_end"}

\* C23: in one round the endpoints are contacted in list order, each at
\* most once; every endpoint before the last one contacted failed to
\* connect, failed the query or answered unknown, so at most one candidate
\* is role-checked per round; a round is begun after the first only when
\* the round before ended in a role mismatch, and a round that ends with
\* neither success nor mismatch ends the run with an error.
C23_RoundStructure ==
    /\ [](/\ Len(roundLog) <= config.instances
          /\ \A i \in 1..(Len(roundLog) - 1) :
                 roundLog[i] \in {"connect_fail", "query_err", "unknown"}
          /\ Discovering => rounds <= mismatches + 1)
    /\ [][ /\ Len(roundLog') > Len(roundLog) => idx = Len(roundLog) + 1
           /\ (Discovering /\ rounds' = rounds + 1)
                 => (restart /\ waits = mismatches /\ rounds = mismatches)
           /\ (pc = "round_end" /\ ~restart)
                 => (pc' \in {"failed", "ready"} /\ ret'.kind = "err") ]_vars

\* C23 witness: both endpoints were contacted, neither gave a candidate,
\* and the run ended after this first round
C23_Witness ==
    /\ roundLog = << "connect_fail", "unknown" >>
    /\ rounds = 1
    /\ pc = "failed"
    /\ ret.err = SentinelUnknownMaster

\* C24: a discovery that is running eventually returns, with streams or
\* with an error (the peers report a role other than Master finitely often,
\* and every await completes); the rounds have no bound of their own: a
\* round that ended in a role mismatch is always followed by another round.
C24_DiscoveryTerminates ==
    /\ Discovering ~> ~Discovering
    /\ [][ (pc = "round_end" /\ restart)
              => (pc' = "sentinel_for" /\ rounds' = rounds + 1) ]_vars

\* C24 witness: discovery has returned streams after two role mismatches
C24_Witness ==
    /\ DiscoveryReturned
    /\ mismatches = 2
    /\ rounds = 3

\* C28: with a password configured, AUTH is never sent on a transport on
\* which the role query of discovery was sent before.
C28_AuthBeforeRole ==
    (config.server = "Sentinel" /\ config.password /\ op = "initialize")
        => \A i \in 1..Len(hsLog) :
               hsLog[i].req = "auth" => hsLog[i].gen \notin roleSent

====
